---- MODULE Spec2Model ----
(***************************************************************************)
(* Model of add_test_files.py: the patcher that registers                  *)
(* FavoritesManagerTests.swift and RestaurantManagerTests.swift in          *)
(* AllTrailsLunchApp.xcodeproj/project.pbxproj.                             *)
(*                                                                         *)
(* The manifest text is a sequence of tokens.  Every token stands for a    *)
(* fixed piece of text whose length in characters is TokLen; the literals  *)
(* the four regular expressions look for are tokens of their own, so a     *)
(* search over tokens finds what re.search finds over the characters, and  *)
(* the character offsets of match.start() and match.end() are sums of      *)
(* token lengths.  The other text of a manifest (pad, the entries) holds   *)
(* none of the literals.  Identifiers are numbers: 1..NumUUIDs for the     *)
(* values uuid4 can draw (draws may coincide), 90..93 for the entries the  *)
(* manifest already has.                                                   *)
(***************************************************************************)
EXTENDS Integers, Sequences, FiniteSets, TLC

\* The number of values a draw of generate_uuid can take.
NumUUIDs == 2

\* content[context_start:sources_phase_match.end() + 1000]
ContextWindow == 1000

FAV == "FavoritesManagerTests.swift"
REST == "RestaurantManagerTests.swift"
PLACE == "PlaceTests.swift"
HELPERS == "TestHelpers.swift"

Max(x, y) == IF x >= y THEN x ELSE y
Min(x, y) == IF x <= y THEN x ELSE y

(***************************************************************************)
(* Tokens.  k is the kind, a an identifier (or a length for ws and pad),   *)
(* b a file name, c the fileRef identifier of a build-file declaration.    *)
(***************************************************************************)
Tok(k, a, b, c) == [k |-> k, a |-> a, b |-> b, c |-> c]

marker == Tok("marker", 0, "", 0)     \* /* AllTrailsLunchAppTests */
other == Tok("other", 0, "", 0)       \* /* AllTrailsLunchApp */
children == Tok("children", 0, "", 0) \* children = (
close == Tok("close", 0, "", 0)       \* );
beginFR == Tok("beginFR", 0, "", 0)   \* /* Begin PBXFileReference section */
endFR == Tok("endFR", 0, "", 0)       \* /* End PBXFileReference section */
beginBF == Tok("beginBF", 0, "", 0)   \* /* Begin PBXBuildFile section */
endBF == Tok("endBF", 0, "", 0)       \* /* End PBXBuildFile section */
sources == Tok("sources", 0, "", 0)   \* /* Sources */
isa == Tok("isa", 0, "", 0)           \* isa = PBXSourcesBuildPhase;
files == Tok("files", 0, "", 0)       \* files = (
run == Tok("run", 0, "", 0)           \* runOnlyForDeploymentPostprocessing
comma == Tok("comma", 0, "", 0)       \* ,
ws(n) == Tok("ws", n, "", 0)          \* n characters of white space
pad(n) == Tok("pad", n, "", 0)        \* n characters of other text, ending in a non-blank
groupdecl == Tok("groupdecl", 0, "", 0) \* = {isa = PBXGroup;
child(id, name) == Tok("child", id, name, 0)          \* ID /* name */
srcref(id, name) == Tok("srcref", id, name, 0)        \* ID /* name in Sources */
frdecl(id, name) == Tok("frdecl", id, name, 0)        \* ID /* name */ = {isa = PBXFileReference; ... };
bfdecl(id, name, ref) == Tok("bfdecl", id, name, ref) \* ID /* name in Sources */ = {isa = PBXBuildFile; fileRef = REF /* name */; };

NameLen(name) ==
    CASE name = FAV -> 27
      [] name = REST -> 28
      [] name = PLACE -> 16
      [] name = HELPERS -> 17

\* The number of characters of a token's text (identifiers are 24 characters).
TokLen(t) ==
    CASE t.k = "marker" -> 28
      [] t.k = "other" -> 23
      [] t.k = "children" -> 12
      [] t.k = "close" -> 2
      [] t.k = "beginFR" -> 36
      [] t.k = "endFR" -> 34
      [] t.k = "beginBF" -> 32
      [] t.k = "endBF" -> 30
      [] t.k = "sources" -> 13
      [] t.k = "isa" -> 27
      [] t.k = "files" -> 9
      [] t.k = "run" -> 34
      [] t.k = "comma" -> 1
      [] t.k = "groupdecl" -> 19
      [] t.k = "ws" -> t.a
      [] t.k = "pad" -> t.a
      [] t.k = "child" -> 31 + NameLen(t.b)
      [] t.k = "srcref" -> 42 + NameLen(t.b)
      [] t.k = "frdecl" -> 132 + 2 * NameLen(t.b)
      [] t.k = "bfdecl" -> 111 + 2 * NameLen(t.b)

RECURSIVE CharLen(_)
CharLen(s) == IF s = <<>> THEN 0 ELSE TokLen(Head(s)) + CharLen(Tail(s))

\* The character offset at which token i of s starts.
Offset(s, i) == CharLen(SubSeq(s, 1, i - 1))

(***************************************************************************)
(* String operations of the script, on token sequences.                    *)
(***************************************************************************)
\* The index of the first token of kind k at or after index from, 0 if none.
find(s, k, from) ==
    LET S == {i \in from..Len(s) : s[i].k = k}
    IN  IF S = {} THEN 0 ELSE CHOOSE i \in S : \A j \in S : i <= j

\* str.rstrip(): drops the trailing white space.
RECURSIVE rstrip(_)
rstrip(s) ==
    IF s # <<>> /\ s[Len(s)].k = "ws" THEN rstrip(SubSeq(s, 1, Len(s) - 1)) ELSE s

\* str.endswith(',')
endswith_comma(s) == s # <<>> /\ s[Len(s)].k = "comma"

\* str.replace(old, new): every non-overlapping occurrence, left to right.
RECURSIVE replace(_, _, _)
replace(s, old, new) ==
    IF Len(s) < Len(old) THEN s
    ELSE IF SubSeq(s, 1, Len(old)) = old
         THEN new \o replace(SubSeq(s, Len(old) + 1, Len(s)), old, new)
         ELSE <<Head(s)>> \o replace(Tail(s), old, new)

\* 'AllTrailsLunchAppTests' in text[lo:hi]; the name is characters 3..24 of the marker.
name_in(s, lo, hi) ==
    \E t \in 1..Len(s) :
        /\ s[t].k = "marker"
        /\ Offset(s, t) + 3 >= lo
        /\ Offset(s, t) + 25 <= Min(CharLen(s), hi)

(***************************************************************************)
(* re.search with re.DOTALL for a pattern that is a chain of literals      *)
(* joined by lazy .*? : the leftmost first literal, then for every later   *)
(* literal its first occurrence after the one before.  The result is the   *)
(* sequence of the literals' token indexes, <<>> when there is no match.   *)
(***************************************************************************)
RECURSIVE re_chain(_, _, _)
re_chain(s, kinds, from) ==
    IF kinds = <<>> THEN <<>>
    ELSE LET i == find(s, Head(kinds), from)
         IN  IF i = 0 THEN <<0>>
             ELSE <<i>> \o re_chain(s, Tail(kinds), i + 1)

re_search(s, kinds) ==
    LET m == re_chain(s, kinds, 1)
    IN  IF m[Len(m)] = 0 THEN <<>> ELSE m

\* line 34: (/\* AllTrailsLunchAppTests \*/.*?children = \()(.*?)(\);)
test_group_match(content) ==
    LET m == re_search(content, <<"marker", "children", "close">>)
    IN  IF m = <<>> THEN [found |-> FALSE]
        ELSE [found |-> TRUE,
              g0 |-> SubSeq(content, m[1], m[3]),
              g1 |-> SubSeq(content, m[1], m[2]),
              g2 |-> SubSeq(content, m[2] + 1, m[3] - 1),
              g3 |-> SubSeq(content, m[3], m[3]),
              open |-> m[2]]

\* lines 56 and 68: (/\* Begin X section \*/)(.*?)(/\* End X section \*/)
section_match(content, begin, end) ==
    LET m == re_search(content, <<begin, end>>)
    IN  IF m = <<>> THEN [found |-> FALSE]
        ELSE [found |-> TRUE,
              g0 |-> SubSeq(content, m[1], m[2]),
              g1 |-> SubSeq(content, m[1], m[1]),
              g2 |-> SubSeq(content, m[1] + 1, m[2] - 1),
              g3 |-> SubSeq(content, m[2], m[2])]

file_ref_section_match(content) == section_match(content, "beginFR", "endFR")

build_file_section_match(content) == section_match(content, "beginBF", "endBF")

\* line 81: (/\* Sources \*/.*?isa = PBXSourcesBuildPhase;.*?files = \()(.*?)(\);.*?runOnlyForDeploymentPostprocessing)
sources_phase_match(content) ==
    LET m == re_search(content, <<"sources", "isa", "files", "close", "run">>)
    IN  IF m = <<>> THEN [found |-> FALSE]
        ELSE [found |-> TRUE,
              g0 |-> SubSeq(content, m[1], m[5]),
              g1 |-> SubSeq(content, m[1], m[3]),
              g2 |-> SubSeq(content, m[3] + 1, m[4] - 1),
              g3 |-> SubSeq(content, m[4], m[5]),
              start |-> Offset(content, m[1]),
              end |-> Offset(content, m[5] + 1),
              open |-> m[3]]

(***************************************************************************)
(* The four edits.  u holds the identifiers of the run.                    *)
(***************************************************************************)
\* lines 46-50
new_children(group_children, u) ==
    LET stripped == rstrip(group_children)
        base == IF endswith_comma(stripped) THEN stripped ELSE stripped \o <<comma>>
    IN  base \o <<ws(5), child(u.favorites_file_ref_uuid, FAV), comma,
                  ws(5), child(u.restaurant_file_ref_uuid, REST), comma>>

add_group_children_once(content, u) ==
    LET m == test_group_match(content)
        new_group == m.g1 \o new_children(m.g2, u) \o m.g3
    IN  IF \E i \in 1..Len(m.g2) : m.g2[i].k = "child" /\ m.g2[i].b = FAV
        THEN content
        ELSE replace(content, m.g0, new_group)

\* lines 41-53
add_group_children(content, u) ==
    LET m == test_group_match(content)
        new_group == m.g1 \o new_children(m.g2, u) \o m.g3
    IN  replace(content, m.g0, new_group)

\* lines 60-63
new_file_refs(file_refs, u) ==
    file_refs \o <<ws(3), frdecl(u.favorites_file_ref_uuid, FAV),
                   ws(3), frdecl(u.restaurant_file_ref_uuid, REST), ws(1)>>

add_file_references_strict(content, u) ==
    LET m == file_ref_section_match(content)
    IN  IF m.found /\ build_file_section_match(content).found
        THEN replace(content, m.g0, m.g1 \o new_file_refs(m.g2, u) \o m.g3)
        ELSE content

\* lines 56-65
add_file_references(content, u) ==
    LET m == file_ref_section_match(content)
    IN  IF m.found
        THEN replace(content, m.g0, m.g1 \o new_file_refs(m.g2, u) \o m.g3)
        ELSE content

new_build_files_swapped(build_files, u) ==
    build_files \o
        <<ws(3), bfdecl(u.favorites_build_file_uuid, FAV, u.restaurant_file_ref_uuid),
          ws(3), bfdecl(u.restaurant_build_file_uuid, REST, u.favorites_file_ref_uuid),
          ws(1)>>

\* lines 72-75
new_build_files(build_files, u) ==
    build_files \o
        <<ws(3), bfdecl(u.favorites_build_file_uuid, FAV, u.favorites_file_ref_uuid),
          ws(3), bfdecl(u.restaurant_build_file_uuid, REST, u.restaurant_file_ref_uuid),
          ws(1)>>

\* lines 68-77
add_build_files(content, u) ==
    LET m == build_file_section_match(content)
    IN  IF m.found
        THEN replace(content, m.g0, m.g1 \o new_build_files(m.g2, u) \o m.g3)
        ELSE content

\* lines 93-97
new_sources(sources_files, u) ==
    LET stripped == rstrip(sources_files)
        base == IF endswith_comma(stripped) THEN stripped ELSE stripped \o <<comma>>
    IN  base \o <<ws(5), srcref(u.favorites_build_file_uuid, FAV), comma,
                  ws(5), srcref(u.restaurant_build_file_uuid, REST), comma>>

\* lines 85-88: is the marker name within the window around the match?
in_context(content, m) ==
    LET context_start == Max(0, m.start - ContextWindow)
    IN  name_in(content, context_start, m.end + ContextWindow)

\* lines 81-100
add_sources(content, u) ==
    LET m == sources_phase_match(content)
    IN  IF m.found /\ in_context(content, m)
        THEN replace(content, m.g0, m.g1 \o new_sources(m.g2, u) \o m.g3)
        ELSE content

(***************************************************************************)
(* The manifests the runs start from.                                      *)
(***************************************************************************)
Presence == {"absent", "empty", "entries"}

FileRefSection(v) ==
    CASE v = "absent" -> <<>>
      [] v = "empty" -> <<beginFR, ws(1), endFR, ws(2)>>
      [] v = "entries" -> <<beginFR, ws(3), frdecl(90, PLACE), ws(3), frdecl(92, HELPERS),
                           ws(1), endFR, ws(2)>>

BuildFileSection(v) ==
    CASE v = "absent" -> <<>>
      [] v = "empty" -> <<beginBF, ws(1), endBF, ws(2)>>
      [] v = "entries" -> <<beginBF, ws(3), bfdecl(91, PLACE, 90), ws(3),
                           bfdecl(93, HELPERS, 92), ws(1), endBF, ws(2)>>

\* List bodies: empty, blank, comma-terminated, last entry without its comma.
ListShapes == {"empty", "blank", "comma", "nocomma"}

ListBody(shape, entry) ==
    CASE shape = "empty" -> <<>>
      [] shape = "blank" -> <<ws(4)>>
      [] shape = "comma" -> <<ws(5), entry, comma, ws(4)>>
      [] shape = "nocomma" -> <<ws(5), entry, ws(4)>>

\* ID /* name */ = {isa = PBXGroup; children = ( body );
Group(name, body) ==
    <<pad(25), name, groupdecl, ws(4), children>> \o body \o <<close, ws(1), pad(2), ws(2)>>

\* The main group, which lists the test group among its children.
MainGroup ==
    <<pad(24), groupdecl, ws(4), children, ws(5), pad(25), marker, comma, ws(4),
      close, ws(1), pad(2), ws(2)>>

AppGroup == Group(other, ListBody("comma", child(92, HELPERS)))

GroupLayouts ==
    {<<"none", "comma">>, <<"after", "comma">>, <<"main", "comma">>, <<"mainfirst", "comma">>}
        \cup {<<"only", b>> : b \in ListShapes}

GroupSection(layout) ==
    LET tests == Group(marker, ListBody(layout[2], child(90, PLACE)))
    IN  CASE layout[1] = "none" -> AppGroup
          [] layout[1] = "only" -> tests
          [] layout[1] = "after" -> AppGroup \o tests
          [] layout[1] = "main" -> MainGroup \o AppGroup \o tests
          [] layout[1] = "mainfirst" -> MainGroup \o tests \o AppGroup

\* ID /* Sources */ = {isa = PBXSourcesBuildPhase; buildActionMask = N; files = ( body );
\*     runOnlyForDeploymentPostprocessing = 0; };
\* The text of a phase after 'runOnlyForDeploymentPostprocessing': = 0; };
PhaseEnd == <<pad(5), ws(3), pad(2), ws(2)>>

Phase(body) ==
    <<pad(25), sources, pad(3), ws(4), isa, ws(4), pad(29), ws(4), files>> \o body
        \o <<close, ws(4), run>> \o PhaseEnd

\* The characters between the end of a phase's match and the text after the phase.
PhaseTail == CharLen(PhaseEnd)

\* Text between the groups and the first phase: short, such that the group's marker
\* is inside the window before the run's insertions and outside after them, long.
Gaps == {10, ContextWindow - 150, 2 * ContextWindow}

\* Text between two phases.
PhaseGaps == {10, 2 * ContextWindow}

\* A marker after the phases, just inside or just outside the window.
Tails == {0, ContextWindow - 25 - PhaseTail, ContextWindow - 24 - PhaseTail}

PhaseLayouts ==
    {<<>>}
        \cup {<<s>> : s \in ListShapes}
        \cup {<<"empty", g, "same">> : g \in PhaseGaps}
        \cup {<<"comma", g, "differs">> : g \in PhaseGaps}

PhaseSection(layout) ==
    IF layout = <<>> THEN <<>>
    ELSE LET first == Phase(ListBody(layout[1], srcref(91, PLACE)))
         IN  IF Len(layout) = 1 THEN first
             ELSE first \o <<pad(layout[2])>>
                      \o (IF layout[3] = "same" THEN first
                          ELSE Phase(ListBody("comma", srcref(93, HELPERS))))

TailSection(t) == IF t = 0 THEN <<>> ELSE <<pad(t), marker, ws(1)>>

Manifest(fr, bf, grp, gap, ph, tail) ==
    BuildFileSection(bf) \o FileRefSection(fr) \o GroupSection(grp) \o <<pad(gap)>>
        \o PhaseSection(ph) \o TailSection(tail)

\* Every combination of present and absent regions, every group layout.
RegionManifests ==
    {Manifest(fr, bf, grp, 10, ph, 0) :
        fr \in {"absent", "entries"}, bf \in Presence, grp \in GroupLayouts,
        ph \in {<<>>, <<"comma">>}}

\* Every phase layout at every distance from the markers.
PhaseManifests ==
    {Manifest("entries", "entries", grp, gap, ph, tail) :
        grp \in {<<"none", "comma">>, <<"only", "comma">>, <<"main", "comma">>},
        gap \in Gaps, ph \in PhaseLayouts, tail \in Tails}

\* Absent regions together with every shape of the two lists.
ShapeManifests ==
    {Manifest(fr, bf, <<"only", b>>, 10, <<s>>, 0) :
        fr \in {"absent", "entries"}, bf \in Presence, b \in ListShapes, s \in ListShapes}

Manifests == RegionManifests \cup PhaseManifests \cup ShapeManifests

\* Manifests with every region present once and the test target's phase near its group.
WellFormedManifests ==
    {Manifest("entries", "entries", <<"only", b>>, 10, <<b>>, 0) : b \in ListShapes}
        \cup {Manifest("entries", "entries", <<"after", "comma">>, 10, <<"comma">>, 0),
              Manifest("entries", "entries", <<"only", "comma">>, 10, <<"empty">>, 0),
              Manifest("entries", "entries", <<"only", "empty">>, 10, <<"nocomma">>, 0)}

(***************************************************************************)
(* The script as a state machine.                                          *)
(***************************************************************************)
VARIABLES
    project_exists,  \* os.path.exists(project_path)
    project_file,    \* the text of project.pbxproj on disk
    pc,              \* the position of the current run
    content,         \* the text in memory
    uuids,           \* the four identifiers of the run
    result,          \* the return value: "none" while running, then "True" or "False"
    reads,           \* reads of the file in the current run
    writes,          \* writes of the file in the current run
    runs,            \* the number of the current run
    hist             \* the text on disk at the start of each run

vars == <<project_exists, project_file, pc, content, uuids, result, reads, writes, runs, hist>>

UUIDs == 1..NumUUIDs

NoUUIDs ==
    [favorites_file_ref_uuid |-> 0, restaurant_file_ref_uuid |-> 0,
     favorites_build_file_uuid |-> 0, restaurant_build_file_uuid |-> 0]

InitWith(docs) ==
    /\ project_exists \in BOOLEAN
    /\ project_file \in (IF project_exists THEN docs ELSE {<<>>})
    /\ pc = "start"
    /\ content = <<>>
    /\ uuids = NoUUIDs
    /\ result = "none"
    /\ reads = 0
    /\ writes = 0
    /\ runs = 1
    /\ hist = <<project_file>>

Init == InitWith(Manifests)

InitWellFormed == InitWith(WellFormedManifests)

CheckExists_NoReturn ==
    /\ pc = "start"
    /\ pc' = "read"
    /\ UNCHANGED <<project_exists, project_file, content, uuids, result, reads, writes, runs, hist>>

\* lines 18-20
CheckExists ==
    /\ pc = "start"
    /\ IF project_exists
       THEN pc' = "read" /\ UNCHANGED result
       ELSE pc' = "done" /\ result' = "False"
    /\ UNCHANGED <<project_exists, project_file, content, uuids, reads, writes, runs, hist>>

\* lines 23-24
ReadProject ==
    /\ pc = "read"
    /\ content' = project_file
    /\ reads' = reads + 1
    /\ pc' = "uuid"
    /\ UNCHANGED <<project_exists, project_file, uuids, result, writes, runs, hist>>

\* lines 11-13 and 27-30: four draws of uuid4().hex[:24].upper()
generate_uuid ==
    /\ pc = "uuid"
    /\ \E a, b, c, d \in UUIDs :
          uuids' = [favorites_file_ref_uuid |-> a, restaurant_file_ref_uuid |-> b,
                    favorites_build_file_uuid |-> c, restaurant_build_file_uuid |-> d]
    /\ pc' = "group"
    /\ UNCHANGED <<project_exists, project_file, content, result, reads, writes, runs, hist>>

AddGroupChildren_NoReturn ==
    /\ pc = "group"
    /\ content' = IF test_group_match(content).found
                  THEN add_group_children(content, uuids)
                  ELSE content
    /\ pc' = "fileref"
    /\ UNCHANGED <<project_exists, project_file, uuids, result, reads, writes, runs, hist>>

\* lines 34-53
AddGroupChildren ==
    /\ pc = "group"
    /\ IF test_group_match(content).found
       THEN /\ content' = add_group_children(content, uuids)
            /\ pc' = "fileref"
            /\ UNCHANGED result
       ELSE /\ result' = "False"
            /\ pc' = "done"
            /\ UNCHANGED content
    /\ UNCHANGED <<project_exists, project_file, uuids, reads, writes, runs, hist>>

\* lines 56-65
AddFileReferences ==
    /\ pc = "fileref"
    /\ content' = add_file_references(content, uuids)
    /\ pc' = "buildfile"
    /\ UNCHANGED <<project_exists, project_file, uuids, result, reads, writes, runs, hist>>

\* lines 68-77
AddBuildFiles ==
    /\ pc = "buildfile"
    /\ content' = add_build_files(content, uuids)
    /\ pc' = "sources"
    /\ UNCHANGED <<project_exists, project_file, uuids, result, reads, writes, runs, hist>>

\* lines 81-100
AddSources ==
    /\ pc = "sources"
    /\ content' = add_sources(content, uuids)
    /\ pc' = "write"
    /\ UNCHANGED <<project_exists, project_file, uuids, result, reads, writes, runs, hist>>

\* lines 103-109
WriteProject ==
    /\ pc = "write"
    /\ project_file' = content
    /\ writes' = writes + 1
    /\ result' = "True"
    /\ pc' = "done"
    /\ UNCHANGED <<project_exists, content, uuids, reads, runs, hist>>

\* The script is invoked again on the file the run before left (lines 111-113).
Rerun ==
    /\ pc = "done"
    /\ runs < 2
    /\ pc' = "start"
    /\ runs' = runs + 1
    /\ hist' = Append(hist, project_file)
    /\ content' = <<>>
    /\ uuids' = NoUUIDs
    /\ result' = "none"
    /\ reads' = 0
    /\ writes' = 0
    /\ UNCHANGED <<project_exists, project_file>>

add_files_to_xcode_project ==
    \/ CheckExists
    \/ ReadProject
    \/ generate_uuid
    \/ AddGroupChildren
    \/ AddFileReferences
    \/ AddBuildFiles
    \/ AddSources
    \/ WriteProject

Next == add_files_to_xcode_project

NextRerun == add_files_to_xcode_project \/ Rerun

\* One run over every manifest.
Spec == Init /\ [][Next]_vars

\* Two consecutive runs over the well-formed manifests.
SpecRerun == InitWellFormed /\ [][NextRerun]_vars

(***************************************************************************)
(* Reading a manifest as its declarations, independently of the searches   *)
(* the script makes.                                                       *)
(***************************************************************************)
\* The manifest the current run started from, and whether the run has returned.
before == hist[runs]

Done == pc = "done"

Succeeded == pc = "done" /\ result = "True"

Has(s, k) == \E i \in 1..Len(s) : s[i].k = k

\* Some marker is followed by a 'children = (' that is followed by a ');'.
HasGroupRegion(s) ==
    \E i \in 1..Len(s) :
        /\ s[i].k = "marker"
        /\ \E j \in (i + 1)..Len(s) :
              /\ s[j].k = "children"
              /\ \E l \in (j + 1)..Len(s) : s[l].k = "close"

\* C2: when the target group's member list cannot be located in an existing manifest,
\* the run returns False, writes nothing and leaves the file as it was.
C2_NoGroupNoWrite ==
    (project_exists /\ ~HasGroupRegion(before)) =>
        /\ writes = 0
        /\ project_file = before
        /\ Done => result = "False"

C2_Witness ==
    /\ Done /\ project_exists /\ ~HasGroupRegion(before)
    /\ Has(before, "beginFR") /\ Has(before, "beginBF")
    /\ Has(before, "sources") /\ Has(before, "marker")
    /\ result = "False"

\* C6: a run writes the file at most once; it writes iff it returns True, which it does
\* iff the file exists and the group region was found; a missing file is neither read
\* nor written; a write comes after the one read of its run.
C6_OneReadOneWrite ==
    /\ reads <= 1 /\ writes <= 1
    /\ writes = 1 => reads = 1
    /\ ~project_exists => (reads = 0 /\ writes = 0)
    /\ Done => /\ (writes = 1) <=> (result = "True")
               /\ (result = "True") <=> (project_exists /\ HasGroupRegion(before))
               /\ result \in {"True", "False"}

C6_Witness == Succeeded /\ writes = 1 /\ reads = 1 /\ project_file # before

Kind(s, k) == SelectSeq(s, LAMBDA t : t.k = k)

Named(s, k, name) == SelectSeq(s, LAMBDA t : t.k = k /\ t.b = name)

Names(s) == [i \in 1..Len(s) |-> s[i].b]

IsPrefix(p, s) == Len(p) <= Len(s) /\ SubSeq(s, 1, Len(p)) = p

\* What the run appended to old to make new (<<>> if new does not extend old).
Suffix(old, new) == IF IsPrefix(old, new) THEN SubSeq(new, Len(old) + 1, Len(new)) ELSE <<>>

\* The indexes of the tokens of kind k, in order.
IndexesOf(s, k) ==
    LET S == {i \in 1..Len(s) : s[i].k = k}
    IN  [n \in 1..Cardinality(S) |-> CHOOSE i \in S : Cardinality({j \in S : j < i}) = n - 1]

\* The entries of a list body, and of the list opened by the token at index open.
Entries(body) == SelectSeq(body, LAMBDA t : t.k \notin {"ws", "comma"})

BodyAt(s, open) ==
    LET S == {l \in (open + 1)..Len(s) : s[l].k = "close"}
    IN  IF S = {} THEN <<>> ELSE SubSeq(s, open + 1, (CHOOSE l \in S : \A x \in S : l <= x) - 1)

\* The bodies of all lists opened by 'children = (' (k = "children") or 'files = (' (k = "files").
Bodies(s, k) == LET ix == IndexesOf(s, k) IN [n \in 1..Len(ix) |-> BodyAt(s, ix[n])]

\* A section delimited by its Begin and End comments is present.
HasSection(s, begin, end) ==
    \E i \in 1..Len(s) : s[i].k = begin /\ \E j \in (i + 1)..Len(s) : s[j].k = end

\* The group AllTrailsLunchAppTests is declared: its marker opens a group declaration.
DeclaresTestGroup(s) ==
    \E i \in 1..(Len(s) - 1) : s[i].k = "marker" /\ s[i + 1].k = "groupdecl"

\* The number of sources phases.
NumPhases(s) == Len(Kind(s, "sources"))

\* The marker name lies within ContextWindow characters of the n-th sources phase, which
\* spans from its '/* Sources */' to the end of its 'runOnlyForDeploymentPostprocessing'.
PhaseInWindow(s, n) ==
    LET from == Offset(s, IndexesOf(s, "sources")[n])
        to == Offset(s, IndexesOf(s, "run")[n] + 1)
    IN  \E t \in 1..Len(s) :
            /\ s[t].k = "marker"
            /\ Offset(s, t) + 3 >= from - ContextWindow
            /\ Offset(s, t) + 3 + 22 <= to + ContextWindow

\* The group, both sections and one sources phase, which the marker identifies.
WellFormed(s) ==
    /\ DeclaresTestGroup(s)
    /\ HasSection(s, "beginFR", "endFR")
    /\ HasSection(s, "beginBF", "endBF")
    /\ NumPhases(s) = 1
    /\ PhaseInWindow(s, 1)

AddedFileRefs == Suffix(Kind(before, "frdecl"), Kind(project_file, "frdecl"))

AddedBuildFiles == Suffix(Kind(before, "bfdecl"), Kind(project_file, "bfdecl"))

AddedSources == Suffix(Kind(before, "srcref"), Kind(project_file, "srcref"))

LocatedGroup(s) ==
    LET m == CHOOSE i \in 1..Len(s) : s[i].k = "marker" /\ \A j \in 1..(i - 1) : s[j].k # "marker"
    IN  Cardinality({i \in 1..Len(s) : s[i].k = "children" /\ i <= m}) + 1

GroupEntries(s) == Entries(Bodies(s, "children")[LocatedGroup(s)])

\* The sources phase the search locates: the first one, when the marker identifies it.
\* The window is read off the file as written; the entries added lie inside the phase.
SourcesLocated == NumPhases(before) >= 1 /\ PhaseInWindow(project_file, 1)

PhaseEntries(s) == Entries(Bodies(s, "files")[1])

FileBodies(s) == Bodies(s, "files")

GroupBodies(s) == Bodies(s, "children")

\* C4: of two sources phases of which exactly one has the marker within its window, the
\* run adds its two entries to that one and leaves the other as it was, whichever of the
\* two comes first.
C4_OnlyTheIdentifiedPhase ==
    (Succeeded /\ NumPhases(before) = 2
        /\ PhaseInWindow(before, 1) # PhaseInWindow(before, 2)) =>
        LET near == IF PhaseInWindow(before, 1) THEN 1 ELSE 2
            far == 3 - near
        IN  /\ Names(Suffix(Entries(FileBodies(before)[near]),
                            Entries(FileBodies(project_file)[near]))) = <<FAV, REST>>
            /\ FileBodies(project_file)[far] = FileBodies(before)[far]

\* Every fileRef of a build file names a file reference, every sources entry a build file.
Referential(s) ==
    /\ \A i \in 1..Len(s) :
          s[i].k = "bfdecl" => \E j \in 1..Len(s) : s[j].k = "frdecl" /\ s[j].a = s[i].c
    /\ \A i \in 1..Len(s) :
          s[i].k = "srcref" => \E j \in 1..Len(s) : s[j].k = "bfdecl" /\ s[j].a = s[i].a

\* C7: a run that returns True on a manifest whose references all resolve writes a
\* manifest whose references all resolve, also when optional regions are missing.
C7_ReferencesStillResolve ==
    (Succeeded /\ Referential(before)) => Referential(project_file)

\* C8: every entry of the manifest is still there after the run, in its region and in
\* its order, the new entries come after them, and the regions other than the located
\* group list, the two sections and the located sources phase have the entries they had.
C8_AppendOnly ==
    Succeeded =>
        /\ Len(GroupBodies(project_file)) = Len(GroupBodies(before))
        /\ Len(FileBodies(project_file)) = Len(FileBodies(before))
        /\ IsPrefix(Kind(before, "frdecl"), Kind(project_file, "frdecl"))
        /\ IsPrefix(Kind(before, "bfdecl"), Kind(project_file, "bfdecl"))
        /\ \A n \in 1..Len(GroupBodies(before)) :
              IF n = LocatedGroup(before)
              THEN IsPrefix(Entries(GroupBodies(before)[n]), Entries(GroupBodies(project_file)[n]))
              ELSE Entries(GroupBodies(project_file)[n]) = Entries(GroupBodies(before)[n])
        /\ \A n \in 1..Len(FileBodies(before)) :
              IF n = 1
              THEN IsPrefix(Entries(FileBodies(before)[n]), Entries(FileBodies(project_file)[n]))
              ELSE Entries(FileBodies(project_file)[n]) = Entries(FileBodies(before)[n])

\* A list body in which every entry is followed by exactly one comma and every comma
\* follows an entry.
Separated(body) ==
    LET t == SelectSeq(body, LAMBDA x : x.k # "ws")
    IN  /\ Len(t) % 2 = 0
        /\ \A i \in 1..Len(t) : (t[i].k = "comma") <=> (i % 2 = 0)

\* C9: after the insertion the located group list and the located sources list hold the
\* entries they had followed by the two new ones, every entry followed by exactly one
\* comma, no comma without an entry before it.
C9_OneCommaPerEntry ==
    Succeeded =>
        /\ Separated(GroupBodies(project_file)[LocatedGroup(before)])
        /\ Names(Suffix(GroupEntries(before), GroupEntries(project_file))) = <<FAV, REST>>
        /\ SourcesLocated =>
              /\ Separated(FileBodies(project_file)[1])
              /\ Names(Suffix(PhaseEntries(before), PhaseEntries(project_file))) = <<FAV, REST>>

\* The n-th 'children = (' list is the one of the declaration of AllTrailsLunchAppTests.
IsTestGroup(s, n) ==
    LET open == IndexesOf(s, "children")[n]
    IN  open > 3 /\ s[open - 3].k = "marker" /\ s[open - 2].k = "groupdecl"

\* C10: when the manifest declares the group AllTrailsLunchAppTests, the two new members
\* are appended to that group's list and no other group's list changes, wherever else
\* the marker occurs.
C10_OnlyTheTestGroup ==
    (Succeeded /\ DeclaresTestGroup(before)) =>
        \A n \in 1..Len(GroupBodies(before)) :
            IF IsTestGroup(before, n)
            THEN Names(Suffix(Entries(GroupBodies(before)[n]),
                              Entries(GroupBodies(project_file)[n]))) = <<FAV, REST>>
            ELSE GroupBodies(project_file)[n] = GroupBodies(before)[n]

====
